---- MODULE Spec2Model ----
(***************************************************************************)
(* Model of src/mdm/ensure_git_symlinks.rs: ensure_git_symlinks().         *)
(*                                                                         *)
(* A string is a sequence of lexemes: the separator "/", a whitespace      *)
(* lexeme, a byte that is not valid UTF-8, or a piece of a file name.      *)
(* A path is what std::path::Path sees in such a string: whether it has a  *)
(* root, and its normal components (each a non-empty sequence of name      *)
(* lexemes).  The filesystem maps the paths that hold an entry to that     *)
(* entry.  Both cfg branches of the function are modelled: platform is     *)
(* the build the program was compiled for.  Paths are written with "/" on  *)
(* both; a windows drive prefix behaves as the root does here (parent() is *)
(* None for it).                                                           *)
(***************************************************************************)
EXTENDS Integers, Sequences, FiniteSets, TLC

\* ---------------------------------------------------------------- bounds
MaxExeLen == 3
MaxOutLen == 3
MaxHops == 2

\* ---------------------------------------------------------------- options
None == <<>>
Some(x) == <<x>>
IsSome(o) == o /= <<>>
Get(o) == o[1]

\* ---------------------------------------------------------------- strings
Sep == "/"
WS == "\n"
BadByte == "0xFF"

Strings(S, n) == UNION {[1..k -> S] : k \in 0..n}

\* A lossy decoding, which never fails.
FromUtf8Lossy(bytes) == Some(bytes)

\* String::from_utf8: fails when a byte sequence is not valid UTF-8.
FromUtf8(bytes) == IF \E i \in 1..Len(bytes) : bytes[i] = BadByte THEN None ELSE Some(bytes)

RECURSIVE TrimStart(_)
TrimStart(s) == IF s /= <<>> /\ Head(s) = WS THEN TrimStart(Tail(s)) ELSE s

RECURSIVE TrimEnd(_)
TrimEnd(s) == IF s /= <<>> /\ s[Len(s)] = WS THEN TrimEnd(SubSeq(s, 1, Len(s) - 1)) ELSE s

\* str::trim: leading and trailing whitespace removed.
Trim(s) == TrimEnd(TrimStart(s))

\* ---------------------------------------------------------------- paths
RECURSIVE SplitFrom(_, _, _)
SplitFrom(s, i, cur) ==
    IF i > Len(s) THEN (IF cur = <<>> THEN <<>> ELSE <<cur>>)
    ELSE IF s[i] = Sep
         THEN (IF cur = <<>> THEN <<>> ELSE <<cur>>) \o SplitFrom(s, i + 1, <<>>)
         ELSE SplitFrom(s, i + 1, Append(cur, s[i]))

\* PathBuf::from: the string seen as a path (repeated and trailing separators
\* do not make components).
PathFrom(s) == [abs |-> s /= <<>> /\ s[1] = Sep, comps |-> SplitFrom(s, 1, <<>>)]

\* Path::parent: None for a root and for the empty path, else the path
\* without its last component.
Parent(p) ==
    IF p.comps = <<>> THEN None
    ELSE Some([abs |-> p.abs, comps |-> [i \in 1..(Len(p.comps) - 1) |-> p.comps[i]]])

\* Path::join with a relative single-component name.
Join(p, name) == [abs |-> p.abs, comps |-> Append(p.comps, <<name>>)]

EmptyPath == [abs |-> FALSE, comps |-> <<>>]
RootPath == [abs |-> TRUE, comps |-> <<>>]

\* ---------------------------------------------------------------- filesystem
FileEntry == [kind |-> "file", target |-> EmptyPath, dirLink |-> FALSE]
DirEntry == [kind |-> "dir", target |-> EmptyPath, dirLink |-> FALSE]
LinkEntry(t, d) == [kind |-> "symlink", target |-> t, dirLink |-> d]

Without(fsys, path) == [q \in DOMAIN fsys \ {path} |-> fsys[q]]
With(fsys, path, e) == [q \in DOMAIN fsys \cup {path} |-> IF q = path THEN e ELSE fsys[q]]

\* Where a symlink at `link` with target `t` leads: a relative target is
\* taken from the directory that holds the link.
Resolve(link, t) ==
    IF t.abs THEN t
    ELSE [abs |-> link.abs,
          comps |-> SubSeq(link.comps, 1, Len(link.comps) - 1) \o t.comps]

\* Path::symlink_metadata().is_ok(): an entry is there, whatever it is.
SymlinkMetadataOk(fsys, path) == path \in DOMAIN fsys

RECURSIVE Follows(_, _, _)
Follows(fsys, path, hops) ==
    IF path = RootPath THEN TRUE
    ELSE IF path \notin DOMAIN fsys THEN FALSE
    ELSE IF fsys[path].kind /= "symlink" THEN TRUE
    ELSE IF hops = 0 THEN FALSE
    ELSE Follows(fsys, Resolve(path, fsys[path].target), hops - 1)

\* Path::exists(): metadata that follows symlinks succeeds.
Exists(fsys, path) == Follows(fsys, path, MaxHops)

\* remove_file: unlink on unix, DeleteFileW on windows.  It fails when
\* nothing is there, on a directory, and on windows also on a directory
\* symlink (an entry with the directory attribute, which only remove_dir
\* deletes).
RemoveFileFails(fsys, path, plat) ==
    \/ path \notin DOMAIN fsys
    \/ fsys[path].kind = "dir"
    \/ plat = "windows" /\ fsys[path].kind = "symlink" /\ fsys[path].dirLink

\* symlink(2) rejects an empty target with ENOENT.  What CreateSymbolicLinkW
\* does with one is left open: on windows the call may or may not fail.
SymlinkFails(fsys, target, path, plat) ==
    \/ path \in DOMAIN fsys
    \/ plat = "unix" /\ target = EmptyPath

\* ---------------------------------------------------------------- inputs
Platforms == {"unix", "windows"}

ExeLexemes == {Sep, "bin"}
ExampleExe == <<Sep, "opt", Sep, "tool", Sep, "bin", Sep, "app">>
ExeInputs == Strings(ExeLexemes, MaxExeLen) \cup {ExampleExe}

OutLexemes == {Sep, "git-core", WS, BadByte}
ExampleOut == <<Sep, "usr", Sep, "libexec", Sep, "git-core", WS>>
GitOutputs == Strings(OutLexemes, MaxOutLen) \cup {ExampleOut}

\* The libexec directory of an earlier git installation.
OldTarget == [abs |-> TRUE, comps |-> << <<"usr">>, <<"libexec">> >>]

\* Where the link of the program installed at `e` lives, if anywhere.
Sites(e) ==
    LET p == PathFrom(e)
        n == Len(p.comps)
    IN  IF n >= 2
        THEN {[abs |-> p.abs, comps |-> SubSeq(p.comps, 1, n - 2) \o << <<"libexec">> >>]}
        ELSE {}

SiteEntries(plat) ==
    {FileEntry, DirEntry, LinkEntry(OldTarget, FALSE)}
        \cup (IF plat = "windows" THEN {LinkEntry(OldTarget, TRUE)} ELSE {})

Worlds == {<<>>, [q \in {OldTarget} |-> DirEntry]}

InitFs(e, plat) ==
    Worlds \cup {With(w, s, en) : w \in Worlds, s \in Sites(e), en \in SiteEntries(plat)}

\* ---------------------------------------------------------------- the function
Procs == {1, 2}

VARIABLES platform, exe, gitEnv, fs, pc, loc, result, fs0, calls, prev

vars == <<platform, exe, gitEnv, fs, pc, loc, result, fs0, calls, prev>>

NoLocals ==
    [exe_path |-> None, binary_dir |-> None, base_dir |-> None, stdout |-> None,
     exec_path |-> None, libexec_target |-> None, symlink_path |-> None,
     exists |-> None, lstat |-> None, present |-> None]

ErrBinaryDir == "Cannot get binary directory"
ErrBaseDir == "Cannot get base directory"
ErrLibexec == "Cannot get libexec directory from exec-path"
ErrIo == "io::Error"
ErrGit == "exec_git error"
ErrUtf8 == "FromUtf8Error"

DeriveBinaryDir(exe_path) == Parent(exe_path)

\* The base directory taken to be the binary directory itself.
BaseDirIsBinaryDir(binary_dir) == Some(binary_dir)

DeriveBaseDir(binary_dir) == Parent(binary_dir)

\* The output used as it is, its trailing newline included.
ExecPathUntrimmed(text) == PathFrom(text)

ExecPathOf(text) == PathFrom(Trim(text))

\* The link pointed at the exec-path itself, not at its parent.
LibexecTargetIsExecPath(exec_path) == Some(exec_path)

DeriveLibexecTarget(exec_path) == Parent(exec_path)

DeriveSymlinkPath(base_dir) == Join(base_dir, "libexec")

\* The removal made unconditional.
IsPresentAlways(fsys, path) == TRUE

IsPresent(fsys, path) == Exists(fsys, path) \/ SymlinkMetadataOk(fsys, path)

\* The removal's error dropped (`let _ = remove_file(..)`).
RemoveErrorIgnored(ok) == TRUE

\* The `?` after remove_file: the call goes on only when the removal succeeded.
RemoveGoesOn(ok) == ok

NewLink(target, plat) == LinkEntry(target, plat = "windows")

\* The creation's error dropped.
CreateErrorIgnored(ok) == "Ok"

\* The `?` after the symlink call, then Ok(()).
CreateResult(ok) == IF ok THEN "Ok" ELSE ErrIo

Set(p, field, v) == loc' = [loc EXCEPT ![p][field] = v]

Goto(p, where) == pc' = [pc EXCEPT ![p] = where] /\ UNCHANGED result

Return(p, r) == pc' = [pc EXCEPT ![p] = "done"] /\ result' = [result EXCEPT ![p] = r]

Env == <<platform, exe>>

\* line 9
CurrentExe(p) ==
    /\ pc[p] = "current_exe"
    /\ \/ Set(p, "exe_path", Some(PathFrom(exe))) /\ Goto(p, "binary_dir")
       \/ Return(p, ErrIo) /\ UNCHANGED loc
    /\ UNCHANGED <<Env, gitEnv, fs, fs0, calls, prev>>

\* lines 12-14
BinaryDir(p) ==
    /\ pc[p] = "binary_dir"
    /\ LET d == DeriveBinaryDir(Get(loc[p].exe_path))
       IN  IF IsSome(d)
           THEN Set(p, "binary_dir", d) /\ Goto(p, "base_dir")
           ELSE Return(p, ErrBinaryDir) /\ UNCHANGED loc
    /\ UNCHANGED <<Env, gitEnv, fs, fs0, calls, prev>>

\* lines 15-17
BaseDir(p) ==
    /\ pc[p] = "base_dir"
    /\ LET d == DeriveBaseDir(Get(loc[p].binary_dir))
       IN  IF IsSome(d)
           THEN Set(p, "base_dir", d) /\ Goto(p, "exec_git")
           ELSE Return(p, ErrBaseDir) /\ UNCHANGED loc
    /\ UNCHANGED <<Env, gitEnv, fs, fs0, calls, prev>>

\* line 20: git is run; what it prints depends on the installation, which
\* does not change while the program runs.
ExecGit(p) ==
    /\ pc[p] = "exec_git"
    /\ \/ \E out \in (IF IsSome(gitEnv) THEN {Get(gitEnv)} ELSE GitOutputs) :
            /\ Set(p, "stdout", Some(out))
            /\ gitEnv' = Some(out)
            /\ Goto(p, "decode")
       \/ Return(p, ErrGit) /\ UNCHANGED <<loc, gitEnv>>
    /\ UNCHANGED <<Env, fs, fs0, calls, prev>>

\* lines 21-22
Decode(p) ==
    /\ pc[p] = "decode"
    /\ LET text == FromUtf8(Get(loc[p].stdout))
       IN  IF IsSome(text)
           THEN /\ loc' = [loc EXCEPT ![p].stdout = None,
                                      ![p].exec_path = Some(ExecPathOf(Get(text)))]
                /\ Goto(p, "libexec_target")
           ELSE Return(p, ErrUtf8) /\ UNCHANGED loc
    /\ UNCHANGED <<Env, gitEnv, fs, fs0, calls, prev>>

\* lines 25-27
LibexecTarget(p) ==
    /\ pc[p] = "libexec_target"
    /\ LET t == DeriveLibexecTarget(Get(loc[p].exec_path))
       IN  IF IsSome(t)
           THEN Set(p, "libexec_target", t) /\ Goto(p, "symlink_path")
           ELSE Return(p, ErrLibexec) /\ UNCHANGED loc
    /\ UNCHANGED <<Env, gitEnv, fs, fs0, calls, prev>>

\* line 30
SymlinkPath(p) ==
    /\ pc[p] = "symlink_path"
    /\ Set(p, "symlink_path", Some(DeriveSymlinkPath(Get(loc[p].base_dir))))
    /\ Goto(p, "check")
    /\ UNCHANGED <<Env, gitEnv, fs, fs0, calls, prev>>

\* line 33: `||` evaluates symlink_metadata only when exists() is false.
CheckPresent(p) ==
    /\ pc[p] = "check"
    /\ LET sp == Get(loc[p].symlink_path)
           ex == Exists(fs, sp)
           here == IsPresent(fs, sp)
       IN  /\ loc' = [loc EXCEPT ![p].exists = Some(ex),
                                 ![p].lstat = IF ex THEN None ELSE Some(SymlinkMetadataOk(fs, sp)),
                                 ![p].present = Some(here)]
           /\ Goto(p, IF here THEN "remove" ELSE "create")
    /\ UNCHANGED <<Env, gitEnv, fs, fs0, calls, prev>>

\* line 34: the call can also fail for a reason of the environment's
\* (permissions, a read-only volume): `fault`.
RemoveFile(p) ==
    /\ pc[p] = "remove"
    /\ \E fault \in BOOLEAN :
        LET sp == Get(loc[p].symlink_path)
            ok == ~fault /\ ~RemoveFileFails(fs, sp, platform)
        IN  /\ calls' = [calls EXCEPT ![p] =
                          Append(@, [op |-> "remove_file", ok |-> ok, fault |-> fault,
                                     occupied |-> sp \in DOMAIN fs])]
            /\ fs' = IF ok THEN Without(fs, sp) ELSE fs
            /\ IF RemoveGoesOn(ok) THEN Goto(p, "create") ELSE Return(p, ErrIo)
    /\ UNCHANGED <<Env, gitEnv, loc, fs0, prev>>

\* lines 37-43
CreateSymlink(p) ==
    /\ pc[p] = "create"
    /\ \E fault \in BOOLEAN :
        LET sp == Get(loc[p].symlink_path)
            t == Get(loc[p].libexec_target)
            ok == ~fault /\ ~SymlinkFails(fs, t, sp, platform)
        IN  /\ calls' = [calls EXCEPT ![p] =
                          Append(@, [op |-> "symlink", ok |-> ok, fault |-> fault,
                                     occupied |-> sp \in DOMAIN fs])]
            /\ fs' = IF ok THEN With(fs, sp, NewLink(t, platform)) ELSE fs
            /\ Return(p, CreateResult(ok))
    /\ UNCHANGED <<Env, gitEnv, loc, fs0, prev>>

Step(p) ==
    \/ CurrentExe(p)
    \/ BinaryDir(p)
    \/ BaseDir(p)
    \/ ExecGit(p)
    \/ Decode(p)
    \/ LibexecTarget(p)
    \/ SymlinkPath(p)
    \/ CheckPresent(p)
    \/ RemoveFile(p)
    \/ CreateSymlink(p)

\* One call of ensure_git_symlinks, from a program installed at exe.
Init ==
    /\ platform \in Platforms
    /\ exe \in ExeInputs
    /\ gitEnv = None
    /\ fs \in InitFs(exe, platform)
    /\ pc = [p \in Procs |-> IF p = 1 THEN "current_exe" ELSE "idle"]
    /\ loc = [p \in Procs |-> NoLocals]
    /\ result = [p \in Procs |-> "none"]
    /\ fs0 = [p \in Procs |-> fs]
    /\ calls = [p \in Procs |-> <<>>]
    /\ prev = None

Next == Step(1)

Spec == Init /\ [][Next]_vars

\* The same program calls the function again, once the first call returned.
Rerun(p) ==
    /\ pc[p] = "done"
    /\ prev = None
    /\ prev' = Some([result |-> result[p], fs |-> fs, calls |-> calls[p]])
    /\ pc' = [pc EXCEPT ![p] = "current_exe"]
    /\ loc' = [loc EXCEPT ![p] = NoLocals]
    /\ result' = [result EXCEPT ![p] = "none"]
    /\ fs0' = [fs0 EXCEPT ![p] = fs]
    /\ calls' = [calls EXCEPT ![p] = <<>>]
    /\ UNCHANGED <<Env, gitEnv, fs>>

NextTwice == Step(1) \/ Rerun(1)

SpecTwice == Init /\ [][NextTwice]_vars

\* Two calls at once, each about to look at SymlinkPath (line 33), with the
\* locals lines 9-30 give them.
LocalsAtCheck(e, out) ==
    LET exe_path == PathFrom(e)
        binary_dir == DeriveBinaryDir(exe_path)
        base_dir == IF IsSome(binary_dir) THEN DeriveBaseDir(Get(binary_dir)) ELSE None
        text == FromUtf8(out)
        exec_path == IF IsSome(text) THEN Some(ExecPathOf(Get(text))) ELSE None
        libexec_target == IF IsSome(exec_path) THEN DeriveLibexecTarget(Get(exec_path)) ELSE None
    IN  [exe_path |-> Some(exe_path), binary_dir |-> binary_dir, base_dir |-> base_dir,
         stdout |-> None, exec_path |-> exec_path, libexec_target |-> libexec_target,
         symlink_path |-> IF IsSome(base_dir) THEN Some(DeriveSymlinkPath(Get(base_dir))) ELSE None,
         exists |-> None, lstat |-> None, present |-> None]

InitConc ==
    /\ platform \in Platforms
    /\ exe \in ExeInputs
    /\ \E out \in GitOutputs :
        /\ gitEnv = Some(out)
        /\ IsSome(LocalsAtCheck(exe, out).symlink_path)
        /\ IsSome(LocalsAtCheck(exe, out).libexec_target)
        /\ loc = [p \in Procs |-> LocalsAtCheck(exe, out)]
    /\ fs \in InitFs(exe, platform)
    /\ pc = [p \in Procs |-> "check"]
    /\ result = [p \in Procs |-> "none"]
    /\ fs0 = [p \in Procs |-> fs]
    /\ calls = [p \in Procs |-> <<>>]
    /\ prev = None

NextConc == \E p \in Procs : CheckPresent(p) \/ RemoveFile(p) \/ CreateSymlink(p)

SpecConc == InitConc /\ [][NextConc]_vars

\* ---------------------------------------------------------------- properties
Done(p) == pc[p] = "done"

Derived(p) == IsSome(loc[p].symlink_path)

Site(p) == Get(loc[p].symlink_path)

Faulted(p) == \E i \in 1..Len(calls[p]) : calls[p][i].fault

\* The path a string names, component by component, and what is expected
\* of its ancestors: stated with SubSeq on the components, not with the
\* derivations of the function.
Comps(s) == PathFrom(s).comps

Ancestor(s, k) == [abs |-> PathFrom(s).abs, comps |-> SubSeq(Comps(s), 1, Len(Comps(s)) - k)]

ExpectedSite == Join(Ancestor(exe, 2), "libexec")

\* git's output is whitespace, then separators only, then whitespace: after
\* trimming, a root path or nothing.
NoParentOutput(raw) ==
    \E a \in 0..Len(raw) : \E b \in a..Len(raw) :
        \A i \in 1..Len(raw) :
            IF i <= a \/ i > b THEN raw[i] = WS ELSE raw[i] = Sep

ValidUtf8(raw) == \A i \in 1..Len(raw) : raw[i] /= BadByte

\* The text git reported, without the whitespace around it.
Reported == Trim(Get(gitEnv))

IsLinkTo(fsys, path, target) ==
    /\ path \in DOMAIN fsys
    /\ fsys[path].kind = "symlink"
    /\ fsys[path].target = target

\* C1: whenever the call returns Ok(()), the entry at BaseDirectory/libexec
\* (BaseDirectory the grandparent of the executable) is a symbolic link whose
\* target is the parent of the path git reported, whatever was there before.
C1_OkLeavesLink ==
    \A p \in Procs :
        (Done(p) /\ result[p] = "Ok") =>
            /\ Len(Comps(exe)) >= 2
            /\ IsSome(gitEnv)
            /\ Comps(Reported) /= <<>>
            /\ IsLinkTo(fs, ExpectedSite, Ancestor(Reported, 1))

C1_Witness ==
    /\ Done(1) /\ result[1] = "Ok"
    /\ ExpectedSite \in DOMAIN fs0[1]
    /\ fs0[1][ExpectedSite] = FileEntry

\* Reachability of C1's other cases: a dangling link, a live link, nothing.
C1_FromDangling ==
    /\ Done(1) /\ result[1] = "Ok"
    /\ ExpectedSite \in DOMAIN fs0[1]
    /\ fs0[1][ExpectedSite].kind = "symlink"
    /\ ~Exists(fs0[1], ExpectedSite)

C1_FromLive ==
    /\ Done(1) /\ result[1] = "Ok"
    /\ ExpectedSite \in DOMAIN fs0[1]
    /\ fs0[1][ExpectedSite].kind = "symlink"
    /\ Exists(fs0[1], ExpectedSite)

C1_FromAbsent ==
    /\ Done(1) /\ result[1] = "Ok"
    /\ ExpectedSite \notin DOMAIN fs0[1]

\* C3: when a real directory is at SymlinkPath, the removal fails, the call
\* returns that error, no symlink call is made and the directory stays.
C3_DirectoryBlocks ==
    \A p \in Procs :
        (Done(p) /\ Derived(p) /\ Site(p) \in DOMAIN fs0[p] /\ fs0[p][Site(p)].kind = "dir") =>
            /\ result[p] = ErrIo
            /\ Len(calls[p]) = 1
            /\ calls[p][1].op = "remove_file"
            /\ ~calls[p][1].ok
            /\ fs = fs0[p]
            /\ fs[Site(p)] = DirEntry

C3_Witness ==
    /\ Done(1) /\ Derived(1)
    /\ Site(1) \in DOMAIN fs0[1] /\ fs0[1][Site(1)].kind = "dir"
    /\ result[1] = ErrIo
    /\ ~calls[1][1].fault

\* C5: when nothing is at SymlinkPath, both checks fail, no removal call is
\* made, and the one filesystem call is the creation of the link.
C5_AbsentNoRemoval ==
    \A p \in Procs :
        (Derived(p) /\ Site(p) \notin DOMAIN fs0[p]) =>
            /\ \A i \in 1..Len(calls[p]) : calls[p][i].op /= "remove_file"
            /\ IsSome(loc[p].present) =>
                  /\ loc[p].exists = Some(FALSE)
                  /\ loc[p].lstat = Some(FALSE)
                  /\ pc[p] \in {"create", "done"}
            /\ Done(p) => (Len(calls[p]) = 1 /\ calls[p][1].op = "symlink")

C5_Witness ==
    /\ Done(1) /\ Derived(1)
    /\ Site(1) \notin DOMAIN fs0[1]
    /\ result[1] = "Ok"
    /\ IsLinkTo(fs, Site(1), Get(loc[1].libexec_target))

\* C6: when the path git reported, trimmed, has no parent (a root path, or
\* nothing), the call returns 'Cannot get libexec directory from exec-path',
\* makes no filesystem call and leaves no link.
C6_NoParentFails ==
    \A p \in Procs :
        (Done(p) /\ IsSome(loc[p].exec_path) /\ NoParentOutput(Get(gitEnv))) =>
            /\ result[p] = ErrLibexec
            /\ calls[p] = <<>>
            /\ fs = fs0[p]

C6_Witness ==
    /\ Done(1) /\ IsSome(loc[1].exec_path)
    /\ Get(gitEnv) = <<WS, Sep, WS>>
    /\ result[1] = ErrLibexec
    /\ ExpectedSite \notin DOMAIN fs

\* C6 again, for output that is nothing but whitespace.
C6_EmptyOutput ==
    /\ Done(1) /\ IsSome(loc[1].exec_path)
    /\ Get(gitEnv) = <<WS>>
    /\ result[1] = ErrLibexec

ExampleBase == [abs |-> TRUE, comps |-> << <<"opt">>, <<"tool">> >>]

ExampleLink == [abs |-> TRUE, comps |-> << <<"opt">>, <<"tool">>, <<"libexec">> >>]

\* C7: an executable path with at least two ancestors gives BinaryDirectory
\* = its parent, BaseDirectory = the parent of that, SymlinkPath =
\* BaseDirectory/libexec; with fewer the call returns the matching
\* descriptive error.  /opt/tool/bin/app with /usr/libexec/git-core reported
\* ends with /opt/tool/libexec -> /usr/libexec.
C7_AncestorsDerived ==
    \A p \in Procs :
        IsSome(loc[p].exe_path) =>
            /\ (Len(Comps(exe)) >= 2 /\ pc[p] \notin {"binary_dir", "base_dir"}) =>
                  /\ loc[p].binary_dir = Some(Ancestor(exe, 1))
                  /\ loc[p].base_dir = Some(Ancestor(exe, 2))
                  /\ result[p] \notin {ErrBinaryDir, ErrBaseDir}
            /\ Derived(p) => Site(p) = ExpectedSite
            /\ (Len(Comps(exe)) = 1 /\ Done(p)) => (result[p] = ErrBaseDir /\ fs = fs0[p])
            /\ (Len(Comps(exe)) = 0 /\ Done(p)) => (result[p] = ErrBinaryDir /\ fs = fs0[p])
            /\ (exe = ExampleExe /\ gitEnv = Some(ExampleOut) /\ Done(p) /\ result[p] = "Ok") =>
                  /\ loc[p].base_dir = Some(ExampleBase)
                  /\ loc[p].libexec_target = Some(OldTarget)
                  /\ IsLinkTo(fs, ExampleLink, OldTarget)

C7_Witness ==
    /\ exe = ExampleExe /\ gitEnv = Some(ExampleOut)
    /\ Done(1) /\ result[1] = "Ok"
    /\ IsLinkTo(fs, ExampleLink, OldTarget)

\* C7's error case: an executable directly under the root.
C7_TooShallow ==
    /\ exe = <<Sep, "bin">>
    /\ Done(1) /\ result[1] = ErrBaseDir

\* C8: when the symlink call fails after the removal of the old entry
\* succeeded, the call returns that error, makes no further call, and
\* SymlinkPath is left absent: the old entry is not put back.
C8_NoRollback ==
    \A p \in Procs :
        (Done(p) /\ Len(calls[p]) >= 2 /\ calls[p][1].op = "remove_file" /\ calls[p][1].ok
                 /\ calls[p][2].op = "symlink" /\ ~calls[p][2].ok) =>
            /\ result[p] = ErrIo
            /\ Len(calls[p]) = 2
            /\ Site(p) \in DOMAIN fs0[p]
            /\ Site(p) \notin DOMAIN fs
            /\ fs = Without(fs0[p], Site(p))

C8_Witness ==
    /\ Done(1) /\ Len(calls[1]) = 2
    /\ calls[1][1].ok /\ ~calls[1][2].ok
    /\ fs0[1][Site(1)] = FileEntry
    /\ Site(1) \notin DOMAIN fs
    /\ result[1] = ErrIo

EarlyErrors == {ErrBinaryDir, ErrBaseDir, ErrGit, ErrUtf8, ErrLibexec}

GitRan(p) == IsSome(loc[p].stdout) \/ IsSome(loc[p].exec_path)

\* C9: a failure before the removal step (no executable path, too few
\* ancestors, git failing, output that is not UTF-8, a reported path with no
\* parent) leaves the filesystem as the call found it, and no filesystem
\* call is made before every input has been derived.
C9_EarlyFailureFrame ==
    \A p \in Procs :
        /\ pc[p] \in {"current_exe", "binary_dir", "base_dir", "exec_git", "decode",
                      "libexec_target", "symlink_path", "check", "remove"} =>
              (fs = fs0[p] /\ calls[p] = <<>>)
        /\ calls[p] /= <<>> =>
              /\ IsSome(loc[p].base_dir)
              /\ IsSome(loc[p].libexec_target)
              /\ IsSome(loc[p].symlink_path)
        /\ (Done(p) /\ (result[p] \in EarlyErrors \/ calls[p] = <<>>)) =>
              (fs = fs0[p] /\ calls[p] = <<>> /\ result[p] /= "Ok")
        /\ (Done(p) /\ IsSome(loc[p].exe_path) /\ Len(Comps(exe)) < 2) =>
              (result[p] \in {ErrBinaryDir, ErrBaseDir} /\ fs = fs0[p])
        /\ (Done(p) /\ GitRan(p) /\ ~ValidUtf8(Get(gitEnv))) =>
              (result[p] = ErrUtf8 /\ fs = fs0[p])
        /\ (Done(p) /\ GitRan(p) /\ ValidUtf8(Get(gitEnv)) /\ Comps(Reported) = <<>>) =>
              (result[p] = ErrLibexec /\ fs = fs0[p])

C9_Witness ==
    /\ Done(1) /\ result[1] = ErrUtf8
    /\ ExpectedSite \in DOMAIN fs0[1]
    /\ fs0[1][ExpectedSite].kind = "symlink"
    /\ fs = fs0[1]

\* C9's other early failures, with an entry at SymlinkPath.
C9_GitFails ==
    /\ Done(1) /\ result[1] = ErrGit
    /\ Len(Comps(exe)) >= 2 /\ ExpectedSite \in DOMAIN fs /\ fs = fs0[1]

C9_NoExe ==
    /\ Done(1) /\ result[1] = ErrIo /\ loc[1].exe_path = None
    /\ Len(Comps(exe)) >= 2 /\ ExpectedSite \in DOMAIN fs /\ fs = fs0[1]

DanglingAt(p) ==
    /\ Derived(p)
    /\ Site(p) \in DOMAIN fs0[p]
    /\ fs0[p][Site(p)].kind = "symlink"
    /\ ~Exists(fs0[p], Site(p))

DanglingReplaced(p) ==
    /\ IsSome(loc[p].present) =>
          /\ loc[p].exists = Some(FALSE)
          /\ loc[p].lstat = Some(TRUE)
          /\ loc[p].present = Some(TRUE)
    /\ \A i \in 1..Len(calls[p]) : calls[p][i].op = "symlink" => ~calls[p][i].occupied
    /\ (Done(p) /\ ~Faulted(p) /\ Get(loc[p].libexec_target) /= EmptyPath) =>
          /\ result[p] = "Ok"
          /\ Len(calls[p]) = 2
          /\ calls[p][1].op = "remove_file" /\ calls[p][1].ok
          /\ calls[p][2].op = "symlink" /\ calls[p][2].ok
          /\ IsLinkTo(fs, Site(p), Get(loc[p].libexec_target))

\* C4: a dangling symlink at SymlinkPath fails the existence check, passes
\* the symlink-metadata check, is removed before the link is created (the
\* creation never meets the old entry), and the call returns Ok(()) with
\* SymlinkPath pointing to LibexecTarget.  Stated for calls the environment
\* does not fail and a target that is not empty.
C4_DanglingReplaced == \A p \in Procs : DanglingAt(p) => DanglingReplaced(p)

\* C4 on the unix build, where it holds.
C4_DanglingReplacedOnUnix ==
    \A p \in Procs : (platform = "unix" /\ DanglingAt(p)) => DanglingReplaced(p)

C4_UnixWitness ==
    /\ platform = "unix" /\ DanglingAt(1) /\ Done(1) /\ result[1] = "Ok"

SecondAfterOk ==
    /\ IsSome(prev)
    /\ Get(prev).result = "Ok"
    /\ Done(1)
    /\ IsSome(loc[1].exe_path)
    /\ result[1] /= ErrGit
    /\ ~Faulted(1)

SecondRepeats ==
    /\ result[1] = "Ok"
    /\ fs = Get(prev).fs
    /\ Len(calls[1]) = 2
    /\ calls[1][1].op = "remove_file" /\ calls[1][1].ok
    /\ calls[1][2].op = "symlink" /\ calls[1][2].ok

\* C2: a second call right after a call that returned Ok(()), with the same
\* executable, the same git output and nothing else touching the
\* filesystem, returns Ok(()) too, removes the link and creates it again,
\* and leaves the filesystem as the first call left it.  Stated for a second
\* call the environment does not fail.
C2_Idempotent == SecondAfterOk => SecondRepeats

\* C2 on the unix build, where it holds.
C2_IdempotentOnUnix == (platform = "unix" /\ SecondAfterOk) => SecondRepeats

C2_UnixWitness == platform = "unix" /\ SecondAfterOk /\ SecondRepeats

BothReturned ==
    /\ \A p \in Procs : Done(p) /\ ~Faulted(p)
    /\ Site(1) \in DOMAIN fs0[1] => fs0[1][Site(1)].kind /= "dir"
    /\ Get(loc[1].libexec_target) /= EmptyPath

\* C10: two calls with the same BaseDirectory and LibexecTarget, their
\* check, removal and creation interleaved, SymlinkPath at first absent or
\* not a directory: once both have returned, SymlinkPath is a symlink to
\* LibexecTarget.  Stated for calls the environment does not fail and a
\* target that is not empty.
C10_ConcurrentEndsLinked ==
    BothReturned => IsLinkTo(fs, Site(1), Get(loc[1].libexec_target))

\* C10 on the unix build, where it holds.
C10_ConcurrentOnUnix ==
    (platform = "unix" /\ BothReturned) => IsLinkTo(fs, Site(1), Get(loc[1].libexec_target))

C10_UnixWitness ==
    /\ platform = "unix" /\ BothReturned
    /\ result[1] = ErrIo /\ result[2] = "Ok"
    /\ Site(1) \in DOMAIN fs0[1]
    /\ fs0[1][Site(1)] = FileEntry

====
